---------------------------- MODULE Spec2Model ----------------------------
(***************************************************************************)
(* Parallel candidate evaluation of the Flappy-Bird NEAT trainer           *)
(* (src/main.py): the window-slot allocator get_new_window_cords, the      *)
(* scoring loop FlappyAI.play, and the coordinator run_multiple_gnomes     *)
(* with its multiprocessing.Pool, called once per generation by run().     *)
(*                                                                         *)
(* Fitness values are kept in tenths (0.1 == 1) so they stay integers.     *)
(***************************************************************************)
EXTENDS Integers, Sequences, FiniteSets, TLC

\* ------------------------------------------------------------- bounds
MaxGnomes == 2      \* candidates per generation (M ranges over 1..MaxGnomes)
MaxBatch == 2       \* batch_size ranges over 1..MaxBatch
MaxGen == 4         \* generations run() asks of population.run
MaxLen == 1         \* ticks of an episode's script
MaxCross == 1       \* pipes crossed on one tick
MaxInterrupts == 2  \* SIGINTs delivered during one invocation
EpMaxTicks == 6     \* surviving ticks of an episode played tick by tick

\* ------------------------------------------------- program constants
Sentinel == -1          \* WINDOW_X, WINDOW_Y = -1, -1
Origin == 10            \* first slot, and the x a wrap returns to
StrideX == 300          \* new_x = WINDOW_X + 300
StrideY == 550          \* new_y = WINDOW_Y + 550
WrapBound == 1600       \* if new_x > 1600
CollisionPenalty == 10  \* gnome.fitness -= 1
SurvivalReward == 1     \* gnome.fitness += 0.1
PassReward == 50        \* gnome.fitness += 5

VARIABLES
    pc,          \* the line run_multiple_gnomes is about to execute
    sigint,      \* the coordinator's SIGINT disposition
    exc,         \* the exception in flight in the coordinator, if any
    WINDOW_X,    \* module global
    WINDOW_Y,    \* module global
    gen,         \* generation being evaluated
    batch_size,  \* the pool size argument
    gnomes,      \* the batch: sequence of candidate ids
    fitness,     \* coordinator-side genome.fitness by candidate id
    args,        \* the task tuples built at line 315
    poolState,   \* multiprocessing.Pool state
    workers,     \* worker processes of the pool
    taskq,       \* tasks submitted and not yet taken by a worker
    outq,        \* results sent by workers, not yet taken by the iterator
    received,    \* results the imap_unordered iterator has handed out
    cur,         \* (result_gid, fitness) bound by the for statement
    slotLog,     \* history: every pair get_new_window_cords returned
    pre,         \* history: each candidate's fitness on entry
    produced,    \* history: results produced per candidate
    writes,      \* history: line-322 assignments per candidate
    epFit,       \* history: what each candidate's episode returned
    failed,      \* history: candidates whose episode raised
    nInt,        \* history: interrupts delivered in this invocation
    ep           \* per worker, the FlappyAI episode it is playing

vars == <<pc, sigint, exc, WINDOW_X, WINDOW_Y, gen, batch_size, gnomes,
          fitness, args, poolState, workers, taskq, outq, received, cur,
          slotLog, pre, produced, writes, epFit, failed, nInt, ep>>

Gids == 1..MaxGnomes
Unset == [set |-> FALSE, v |-> 0]          \* genome.fitness is None
Fit(v) == [set |-> TRUE, v |-> v]
NoResult == [gid |-> 0, ok |-> TRUE, fitness |-> 0]
Batch == {gnomes[i] : i \in 1..Len(gnomes)}

\* ------------------------------------------------------ slot allocator
\* Two faulty variants of get_new_window_cords: one that wraps without
\* advancing y, and one that wraps one column early.
GetNewWindowCordsNoYAdvance(wx, wy) ==
    IF wx = Sentinel /\ wy = Sentinel
    THEN [wx |-> Origin, wy |-> Origin, ret |-> <<Origin, Origin>>]
    ELSE LET new_x == wx + StrideX
             nx == IF new_x > WrapBound THEN Origin ELSE new_x
         IN  [wx |-> nx, wy |-> wy, ret |-> <<nx, wy>>]

GetNewWindowCordsWrapAtBound(wx, wy) ==
    IF wx = Sentinel /\ wy = Sentinel
    THEN [wx |-> Origin, wy |-> Origin, ret |-> <<Origin, Origin>>]
    ELSE LET new_x == wx + StrideX
             nx == IF new_x + StrideX > WrapBound THEN Origin ELSE new_x
             ny == IF new_x + StrideX > WrapBound THEN wy + StrideY ELSE wy
         IN  [wx |-> nx, wy |-> ny, ret |-> <<nx, ny>>]

\* A third one, which returns the new pair without storing it.
GetNewWindowCordsNoStore(wx, wy) ==
    IF wx = Sentinel /\ wy = Sentinel
    THEN [wx |-> Origin, wy |-> Origin, ret |-> <<Origin, Origin>>]
    ELSE LET new_x == wx + StrideX
             nx == IF new_x > WrapBound THEN Origin ELSE new_x
             ny == IF new_x > WrapBound THEN wy + StrideY ELSE wy
         IN  [wx |-> wx, wy |-> wy, ret |-> <<nx, ny>>]

\* get_new_window_cords: the globals after the call and the pair returned.
GetNewWindowCords(wx, wy) ==
    IF wx = Sentinel /\ wy = Sentinel
    THEN [wx |-> Origin, wy |-> Origin, ret |-> <<Origin, Origin>>]
    ELSE LET new_x == wx + StrideX
             nx == IF new_x > WrapBound THEN Origin ELSE new_x
             ny == IF new_x > WrapBound THEN wy + StrideY ELSE wy
         IN  [wx |-> nx, wy |-> ny, ret |-> <<nx, ny>>]

\* ------------------------------------------------------------ episode
TickEvents == [collided : BOOLEAN, crossed : 0..MaxCross, quit : BOOLEAN]

\* A variant of TickScore in which the colliding tick still earns the
\* survival reward.
TickScoreRewardOnCollision(f, e) ==
    IF e.collided
    THEN [done |-> TRUE, fitness |-> f + SurvivalReward - CollisionPenalty]
    ELSE [done |-> e.quit,
          fitness |-> f + SurvivalReward + PassReward * e.crossed]

\* A variant of TickScore in which quitting costs the penalty.
TickScoreQuitPenalty(f, e) ==
    IF e.collided
    THEN [done |-> TRUE, fitness |-> f - CollisionPenalty]
    ELSE [done |-> e.quit,
          fitness |-> f + SurvivalReward + PassReward * e.crossed
                        - (IF e.quit THEN CollisionPenalty ELSE 0)]

\* Lines 145-166, the fitness side of one iteration of the loop: a collision
\* costs the penalty and ends the episode; otherwise the tick earns the
\* survival reward and a pass reward per pipe crossed, and a quit event
\* ends the episode after that.
TickScore(f, e) ==
    IF e.collided
    THEN [done |-> TRUE, fitness |-> f - CollisionPenalty]
    ELSE [done |-> e.quit,
          fitness |-> f + SurvivalReward + PassReward * e.crossed]

RECURSIVE PlayFrom(_, _, _)
\* FlappyAI.play from tick i of the script with cumulative fitness f:
\* done says whether the episode returned within the script.
PlayFrom(script, i, f) ==
    IF i > Len(script) THEN [done |-> FALSE, at |-> i, fitness |-> f]
    ELSE LET sc == TickScore(f, script[i]) IN
         IF sc.done
         THEN [done |-> TRUE, at |-> i, fitness |-> sc.fitness]
         ELSE PlayFrom(script, i + 1, sc.fitness)

\* gnome.fitness = 0, then the loop.
Play(script) == PlayFrom(script, 1, 0)

Scripts == UNION {[1..n -> TickEvents] : n \in 1..MaxLen}

\* The scripts on which the episode returns exactly on the last tick.
Episodes == {s \in Scripts : Play(s).done /\ Play(s).at = Len(s)}

\* ---------------------------------------------------- the game world
\* Player and Pipes of the game package, as spec.md 4.1 describes them: a
\* field the obstacles scroll through from right to left, an agent at a
\* fixed horizontal position inside it, gravity, the flap impulse, the
\* ground and the ceiling.  Positions are in tick-sized steps.
FieldLeft == 0      \* an obstacle left of this has left the field
FieldRight == 4     \* obstacles spawn here
PlayerX == 2        \* the agent's horizontal position
PipeSpacing == 2    \* horizontal distance between obstacles
Ground == 0
Ceiling == 5
StartY == 2         \* the agent's height at the start
Gaps == {2, 4}      \* heights a gap can be at

Min(a, b) == IF a < b THEN a ELSE b
Max(a, b) == IF a > b THEN a ELSE b

\* No episode: the worker has not constructed a FlappyAI.
EpOff ==
    [st |-> "off", end |-> "none", gid |-> 0, fit |-> 0, alive |-> 0,
     passes |-> 0, flapped |-> FALSE, cy |-> 0, pipes |-> <<>>]

\* Lines 83-89 and 117-121: fresh entities, the score reset, and
\* gnome.fitness = 0 on the worker's copy of the genome.
NewEpisode(g, gap) ==
    [st |-> "playing", end |-> "none", gid |-> g, fit |-> 0, alive |-> 0,
     passes |-> 0, flapped |-> FALSE, cy |-> StartY,
     pipes |-> <<[x |-> FieldRight, gap |-> gap]>>]

\* Lines 127-139: (player.cy, dist_to_pipe, gap_center), all taken from
\* the first element of the pipe lists.
Observation(e) == <<e.cy, e.pipes[1].x - PlayerX, e.pipes[1].gap>>

\* Lines 142 and 158: actions[0] > 0.5, for whatever network the genome
\* encodes.
Decide(o) == BOOLEAN

\* Player.collided: the ground, the ceiling, or an obstacle at the agent's
\* position whose gap is elsewhere.
Collided(e) ==
    \/ e.cy <= Ground
    \/ e.cy >= Ceiling
    \/ \E i \in DOMAIN e.pipes :
           e.pipes[i].x = PlayerX /\ e.pipes[i].gap # e.cy

\* Player.crossed: the obstacle the agent's position has just passed.
Crossed(p) == p.x = PlayerX - 1

NumCrossed(e) == Cardinality({i \in DOMAIN e.pipes : Crossed(e.pipes[i])})

\* Player.tick: the impulse of a flap lifts the agent, gravity pulls it
\* down otherwise.
PlayerTick(cy, flap) ==
    IF flap THEN Min(cy + 1, Ceiling) ELSE Max(cy - 1, Ground)

\* Pipes.tick: obstacles move left, the one that left the field is
\* dropped, and a new one spawns at the right edge once there is room.
PipesTick(pipes, gap) ==
    LET moved == [i \in DOMAIN pipes |-> [pipes[i] EXCEPT !.x = @ - 1]]
        kept == IF moved # <<>> /\ moved[1].x < FieldLeft
                THEN Tail(moved) ELSE moved
    IN  IF kept = <<>> \/ kept[Len(kept)].x <= FieldRight - PipeSpacing
        THEN Append(kept, [x |-> FieldRight, gap |-> gap])
        ELSE kept

\* ---------------------------------------------------------------- Init
Init ==
    /\ pc = "l307"
    /\ sigint = "default"
    /\ exc = "none"
    /\ WINDOW_X = Sentinel
    /\ WINDOW_Y = Sentinel
    /\ gen = 1
    /\ batch_size \in 1..MaxBatch
    /\ \E m \in 1..MaxGnomes : gnomes = [i \in 1..m |-> i]
    /\ fitness = [g \in Gids |-> Unset]
    /\ args = <<>>
    /\ poolState = "none"
    /\ workers = [w \in 1..batch_size |-> [st |-> "none", gid |-> 0]]
    /\ taskq = <<>>
    /\ outq = <<>>
    /\ received = 0
    /\ cur = NoResult
    /\ slotLog = <<>>
    /\ pre = [g \in Gids |-> Unset]
    /\ produced = [g \in Gids |-> 0]
    /\ writes = [g \in Gids |-> 0]
    /\ epFit = [g \in Gids |-> Unset]
    /\ failed = {}
    /\ nInt = 0
    /\ ep = [w \in 1..batch_size |-> EpOff]

\* -------------------------------------------------------- coordinator
Running == pc \notin {"returned", "raised"}
AllDead == \A w \in DOMAIN workers : workers[w].st = "dead"

coordVars == <<pc, sigint, exc, args, received, cur>>
poolVars == <<poolState, workers, taskq, outq>>
slotVars == <<WINDOW_X, WINDOW_Y, slotLog>>
batchVars == <<gen, batch_size, gnomes, pre>>
histVars == <<produced, writes, epFit, failed>>

\* A variant of BuildDict that resets the slot state for the generation.
BuildDictResetWindow ==
    /\ pc = "l307"
    /\ pc' = "l310"
    /\ WINDOW_X' = Sentinel
    /\ WINDOW_Y' = Sentinel
    /\ UNCHANGED <<sigint, exc, gen, batch_size, gnomes, fitness, args,
                   poolState, workers, taskq, outq, received, cur, slotLog,
                   pre, produced, writes, epFit, failed, nInt, ep>>

\* Lines 304-307: the globals are declared and left alone; gnomes_dict is
\* the id -> genome view of the batch (the map fitness is indexed by).
BuildDict ==
    /\ pc = "l307"
    /\ pc' = "l310"
    /\ UNCHANGED <<sigint, exc, WINDOW_X, WINDOW_Y, gen, batch_size, gnomes,
                   fitness, args, poolState, workers, taskq, outq, received,
                   cur, slotLog, pre, produced, writes, epFit, failed, nInt, ep>>

\* Line 310: signal.signal(SIGINT, SIG_IGN).
IgnoreSigint ==
    /\ pc = "l310"
    /\ pc' = "l311"
    /\ sigint' = "ignored"
    /\ UNCHANGED <<exc, args, received, cur, fitness, nInt>>
    /\ UNCHANGED <<poolVars, slotVars, batchVars, histVars, ep>>

\* A variant of CreatePool that starts one worker per candidate.
CreatePoolPerCandidate ==
    /\ pc = "l311"
    /\ pc' = "l312"
    /\ poolState' = "RUN"
    /\ workers' = [w \in 1..Len(gnomes) |-> [st |-> "idle", gid |-> 0]]
    /\ UNCHANGED <<sigint, exc, args, received, cur, taskq, outq, fitness, nInt>>
    /\ UNCHANGED <<slotVars, batchVars, histVars, ep>>

\* Line 311: multiprocessing.Pool(processes=batch_size) starts the workers.
CreatePool ==
    /\ pc = "l311"
    /\ pc' = "l312"
    /\ poolState' = "RUN"
    /\ workers' = [w \in 1..batch_size |-> [st |-> "idle", gid |-> 0]]
    /\ UNCHANGED <<sigint, exc, args, received, cur, taskq, outq, fitness, nInt>>
    /\ UNCHANGED <<slotVars, batchVars, histVars, ep>>

\* Line 312: the original handler is put back.
RestoreSigint ==
    /\ pc = "l312"
    /\ pc' = "l315"
    /\ sigint' = "default"
    /\ UNCHANGED <<exc, args, received, cur, fitness, nInt>>
    /\ UNCHANGED <<poolVars, slotVars, batchVars, histVars, ep>>

\* Line 315: one element of the list comprehension, which calls
\* get_new_window_cords for the next candidate of the batch.
BuildArg ==
    /\ pc = "l315"
    /\ Len(args) < Len(gnomes)
    /\ LET i == Len(args) + 1
           r == GetNewWindowCords(WINDOW_X, WINDOW_Y)
       IN  /\ WINDOW_X' = r.wx
           /\ WINDOW_Y' = r.wy
           /\ slotLog' = Append(slotLog, r.ret)
           /\ args' = Append(args, [gid |-> gnomes[i], x |-> r.ret[1], y |-> r.ret[2]])
           /\ pc' = IF i = Len(gnomes) THEN "l319" ELSE "l315"
    /\ UNCHANGED <<sigint, exc, received, cur, fitness, nInt>>
    /\ UNCHANGED <<poolVars, batchVars, histVars, ep>>

\* Line 319, entering the loop: imap_unordered hands the tasks to the pool.
Submit ==
    /\ pc = "l319"
    /\ pc' = "next"
    /\ taskq' = [i \in 1..Len(args) |-> args[i].gid]
    /\ UNCHANGED <<sigint, exc, args, received, cur, fitness, nInt>>
    /\ UNCHANGED <<poolState, workers, outq>>
    /\ UNCHANGED <<slotVars, batchVars, histVars, ep>>

\* A variant of NextResult that pairs each result with the candidate in
\* the same position of the submission order.
NextResultBySubmissionOrder ==
    /\ pc = "next"
    /\ received < Len(args)
    /\ outq # <<>>
    /\ LET r == Head(outq) IN
         /\ outq' = Tail(outq)
         /\ received' = received + 1
         /\ IF r.ok
            THEN /\ cur' = [r EXCEPT !.gid = args[received + 1].gid]
                 /\ pc' = "l322"
                 /\ exc' = exc
            ELSE /\ cur' = cur
                 /\ pc' = "l335"
                 /\ exc' = "WorkerError"
    /\ UNCHANGED <<sigint, args, fitness, nInt>>
    /\ UNCHANGED <<poolState, workers, taskq>>
    /\ UNCHANGED <<slotVars, batchVars, histVars, ep>>

\* Line 319, the iterator's next(): a successful result is bound to
\* (result_gid, fitness); a failed one re-raises the worker's exception,
\* which no except clause matches, so the finally clause runs.
NextResult ==
    /\ pc = "next"
    /\ received < Len(args)
    /\ outq # <<>>
    /\ LET r == Head(outq) IN
         /\ outq' = Tail(outq)
         /\ received' = received + 1
         /\ IF r.ok
            THEN /\ cur' = r
                 /\ pc' = "l322"
                 /\ exc' = exc
            ELSE /\ cur' = cur
                 /\ pc' = "l335"
                 /\ exc' = "WorkerError"
    /\ UNCHANGED <<sigint, args, fitness, nInt>>
    /\ UNCHANGED <<poolState, workers, taskq>>
    /\ UNCHANGED <<slotVars, batchVars, histVars, ep>>

\* Line 319, StopIteration once every task's result was handed out: the
\* else clause runs.
StopIteration ==
    /\ pc = "next"
    /\ received = Len(args)
    /\ pc' = "l331"
    /\ UNCHANGED <<sigint, exc, args, received, cur, fitness, nInt>>
    /\ UNCHANGED <<poolVars, slotVars, batchVars, histVars, ep>>

\* A variant of Assign that writes every result onto the first candidate.
AssignToFirst ==
    /\ pc = "l322"
    /\ pc' = "next"
    /\ fitness' = [fitness EXCEPT ![gnomes[1]] = Fit(cur.fitness)]
    /\ writes' = [writes EXCEPT ![gnomes[1]] = @ + 1]
    /\ UNCHANGED <<sigint, exc, args, received, cur, nInt>>
    /\ UNCHANGED <<produced, epFit, failed, ep>>
    /\ UNCHANGED <<poolVars, slotVars, batchVars>>

\* Line 322: gnomes_dict[result_gid].fitness = fitness.
Assign ==
    /\ pc = "l322"
    /\ pc' = "next"
    /\ fitness' = [fitness EXCEPT ![cur.gid] = Fit(cur.fitness)]
    /\ writes' = [writes EXCEPT ![cur.gid] = @ + 1]
    /\ UNCHANGED <<sigint, exc, args, received, cur, nInt>>
    /\ UNCHANGED <<produced, epFit, failed, ep>>
    /\ UNCHANGED <<poolVars, slotVars, batchVars>>

\* A variant of Terminate that also zeroes the fitness of the candidates
\* whose result was not written.
TerminateZeroUnscored ==
    /\ pc = "l326"
    /\ pc' = "l326h"
    /\ poolState' = "TERMINATE"
    /\ taskq' = <<>>
    /\ outq' = <<>>
    /\ fitness' = [g \in Gids |->
                     IF g \in Batch /\ writes[g] = 0 THEN Fit(0) ELSE fitness[g]]
    /\ UNCHANGED <<sigint, exc, args, received, cur, nInt, workers>>
    /\ UNCHANGED <<slotVars, batchVars, histVars, ep>>

\* Line 326, process_pool.terminate(), first half: the pool's state becomes
\* TERMINATE, the queued tasks are withdrawn (the pool keeps the task
\* queue's read lock from here on, so no worker gets another item from it),
\* the results nobody took are dropped, and the call waits for the pool's
\* worker-handler thread.  The workers have not been signalled yet.
Terminate ==
    /\ pc = "l326"
    /\ pc' = "l326h"
    /\ poolState' = "TERMINATE"
    /\ taskq' = <<>>
    /\ outq' = <<>>
    /\ UNCHANGED <<sigint, exc, args, received, cur, fitness, nInt, workers>>
    /\ UNCHANGED <<slotVars, batchVars, histVars, ep>>

\* A variant of TerminateWorkers that signals no worker.
TerminateWorkersSkip ==
    /\ pc = "l326h"
    /\ pc' = "l326w"
    /\ UNCHANGED <<sigint, exc, args, received, cur, fitness, nInt>>
    /\ UNCHANGED <<poolVars, slotVars, batchVars, histVars, ep>>

\* Line 326, terminate(), second half: every live worker is sent SIGTERM,
\* and the call then waits for them to exit.
TerminateWorkers ==
    /\ pc = "l326h"
    /\ pc' = "l326w"
    /\ workers' = [w \in DOMAIN workers |->
                     IF workers[w].st = "dead" THEN workers[w]
                     ELSE [st |-> "killed", gid |-> workers[w].gid]]
    /\ UNCHANGED <<poolState, taskq, outq>>
    /\ UNCHANGED <<sigint, exc, args, received, cur, fitness, nInt>>
    /\ UNCHANGED <<slotVars, batchVars, histVars, ep>>

\* Lines 326-327: terminate() returns once the workers it signalled have
\* exited; the return statement then runs the finally clause.
TerminateDone ==
    /\ pc = "l326w"
    /\ AllDead
    /\ pc' = "l335"
    /\ UNCHANGED <<sigint, exc, args, received, cur, fitness, nInt>>
    /\ UNCHANGED <<poolVars, slotVars, batchVars, histVars, ep>>

\* Line 331, process_pool.close(), then the finally clause.
Close ==
    /\ pc = "l331"
    /\ pc' = "l335"
    /\ poolState' = "CLOSE"
    /\ UNCHANGED <<workers, taskq, outq>>
    /\ UNCHANGED <<sigint, exc, args, received, cur, fitness, nInt>>
    /\ UNCHANGED <<slotVars, batchVars, histVars, ep>>

\* A variant of Join that does not wait for the workers.
JoinNoWait ==
    /\ pc = "l335"
    /\ IF poolState = "RUN"
       THEN pc' = "raised" /\ exc' = "ValueError"
       ELSE /\ pc' = (IF exc = "none" THEN "returned" ELSE "raised")
            /\ exc' = exc
    /\ UNCHANGED <<sigint, args, received, cur, fitness, nInt>>
    /\ UNCHANGED <<poolVars, slotVars, batchVars, histVars, ep>>

\* Line 335, process_pool.join(): on a pool still in state RUN it raises
\* ValueError("Pool is still running"); otherwise it waits for every worker
\* to exit, and the function then returns, or lets the exception in flight
\* go on to the caller.
Join ==
    /\ pc = "l335"
    /\ IF poolState = "RUN"
       THEN pc' = "raised" /\ exc' = "ValueError"
       ELSE /\ AllDead
            /\ pc' = (IF exc = "none" THEN "returned" ELSE "raised")
            /\ exc' = exc
    /\ UNCHANGED <<sigint, args, received, cur, fitness, nInt>>
    /\ UNCHANGED <<poolVars, slotVars, batchVars, histVars, ep>>

\* SIGINT reaches the coordinator while the default handler is installed:
\* KeyboardInterrupt is raised at the statement being executed.  Inside the
\* try block (lines 319-322) the except clause takes it; outside it (lines
\* 307, 310, 315) and inside join it goes to the caller; inside the except
\* and else clauses it goes to the caller through the finally clause.  One
\* that arrives inside terminate() abandons that call where it stands: the
\* pool never resumes it.
Interrupt ==
    /\ Running
    /\ sigint = "default"
    /\ nInt < MaxInterrupts
    /\ nInt' = nInt + 1
    /\ \/ /\ pc \in {"l307", "l310", "l315", "l335"}
          /\ pc' = "raised"
          /\ exc' = "KeyboardInterrupt"
       \/ /\ pc \in {"l319", "next", "l322"}
          /\ pc' = "l326"
          /\ exc' = exc
       \/ /\ pc \in {"l326", "l326h", "l326w", "l331"}
          /\ pc' = "l335"
          /\ exc' = "KeyboardInterrupt"
    /\ UNCHANGED <<sigint, args, received, cur, fitness>>
    /\ UNCHANGED <<poolVars, slotVars, batchVars, histVars, ep>>

\* ------------------------------------------------------------ workers
\* A variant of WorkerTake that leaves the task in the queue.
WorkerTakeNoPop(w) ==
    /\ poolState \in {"RUN", "CLOSE"}
    /\ workers[w].st = "idle"
    /\ taskq # <<>>
    /\ produced[Head(taskq)] < 2
    /\ workers' = [workers EXCEPT ![w] = [st |-> "busy", gid |-> Head(taskq)]]
    /\ UNCHANGED <<taskq, poolState, outq>>
    /\ UNCHANGED <<coordVars, fitness, nInt, slotVars, batchVars, histVars, ep>>

\* The pool's worker loop: an idle worker takes the next queued task and
\* calls wrapper_call on it (lines 274-284, 252-271).
WorkerTake(w) ==
    /\ poolState \in {"RUN", "CLOSE"}
    /\ workers[w].st = "idle"
    /\ taskq # <<>>
    /\ workers' = [workers EXCEPT ![w] = [st |-> "busy", gid |-> Head(taskq)]]
    /\ taskq' = Tail(taskq)
    /\ UNCHANGED <<poolState, outq>>
    /\ UNCHANGED <<coordVars, fitness, nInt, slotVars, batchVars, histVars, ep>>

\* The episode of worker w returns (lines 243-249): play ran some script to
\* its end and the pair (gid, fitness) goes back to the coordinator.  The
\* worker's copy of the genome is what play wrote to; the coordinator's
\* fitness is untouched.
EpisodeReturn(w) ==
    /\ workers[w].st = "busy"
    /\ \E s \in Episodes :
         LET g == workers[w].gid
             f == Play(s).fitness
         IN  /\ outq' = Append(outq, [gid |-> g, ok |-> TRUE, fitness |-> f])
             /\ produced' = [produced EXCEPT ![g] = @ + 1]
             /\ epFit' = [epFit EXCEPT ![g] = Fit(f)]
    /\ workers' = [workers EXCEPT ![w] = [st |-> "idle", gid |-> 0]]
    /\ UNCHANGED <<poolState, taskq, writes, failed, ep>>
    /\ UNCHANGED <<coordVars, fitness, nInt, slotVars, batchVars>>

\* The episode of worker w raises: the pool sends the exception back as
\* the task's result and the worker goes on to the next task.
EpisodeRaise(w) ==
    /\ workers[w].st = "busy"
    /\ LET g == workers[w].gid IN
         /\ outq' = Append(outq, [gid |-> g, ok |-> FALSE, fitness |-> 0])
         /\ produced' = [produced EXCEPT ![g] = @ + 1]
         /\ failed' = failed \cup {g}
    /\ workers' = [workers EXCEPT ![w] = [st |-> "idle", gid |-> 0]]
    /\ UNCHANGED <<poolState, taskq, writes, epFit, ep>>
    /\ UNCHANGED <<coordVars, fitness, nInt, slotVars, batchVars>>

\* After close(), an idle worker with nothing left to take exits.
WorkerExit(w) ==
    /\ poolState = "CLOSE"
    /\ workers[w].st = "idle"
    /\ taskq = <<>>
    /\ workers' = [workers EXCEPT ![w] = [st |-> "dead", gid |-> 0]]
    /\ UNCHANGED <<poolState, taskq, outq>>
    /\ UNCHANGED <<coordVars, fitness, nInt, slotVars, batchVars, histVars, ep>>

\* A worker that terminate() signalled dies, whatever it was doing.
WorkerKilled(w) ==
    /\ workers[w].st = "killed"
    /\ workers' = [workers EXCEPT ![w] = [st |-> "dead", gid |-> 0]]
    /\ UNCHANGED <<poolState, taskq, outq>>
    /\ UNCHANGED <<coordVars, fitness, nInt, slotVars, batchVars, histVars, ep>>

\* ------------------------------------------- the episode, tick by tick
\* A variant of EpStart that leaves the fitness the genome came with.
EpStartKeepFitness(w) ==
    /\ workers[w].st = "busy"
    /\ ep[w].st \in {"off", "delivered"}
    /\ \E gap \in Gaps :
         LET g == workers[w].gid IN
         ep' = [ep EXCEPT ![w] =
                   [NewEpisode(g, gap) EXCEPT
                       !.fit = IF fitness[g].set THEN fitness[g].v ELSE 0]]
    /\ UNCHANGED <<coordVars, poolVars, fitness, nInt>>
    /\ UNCHANGED <<slotVars, batchVars, histVars>>

\* Lines 236-240, 83-98 and 113-121: the worker builds a FlappyAI, start
\* creates the entities, play resets the score and sets gnome.fitness = 0.
EpStart(w) ==
    /\ workers[w].st = "busy"
    /\ ep[w].st \in {"off", "delivered"}
    /\ \E gap \in Gaps :
         ep' = [ep EXCEPT ![w] = NewEpisode(workers[w].gid, gap)]
    /\ UNCHANGED <<coordVars, poolVars, fitness, nInt>>
    /\ UNCHANGED <<slotVars, batchVars, histVars>>

\* A variant of PlayTick that also returns once a number of ticks has
\* been survived.
PlayTickCapped(e, flap, quit, gap) ==
    LET ev == [collided |-> Collided(e), crossed |-> NumCrossed(e),
               quit |-> quit]
        sc == TickScore(e.fit, ev)
        cap == e.alive + 1 > StartY
    IN  IF ev.collided
        THEN [e EXCEPT !.st = "returned", !.end = "collided",
                       !.fit = sc.fitness]
        ELSE [st |-> IF quit \/ cap THEN "returned" ELSE "playing",
              end |-> IF quit THEN "quit"
                   ELSE IF cap THEN "cap" ELSE "none",
              gid |-> e.gid,
              fit |-> sc.fitness,
              alive |-> e.alive + 1,
              passes |-> e.passes + ev.crossed,
              flapped |-> e.flapped \/ flap,
              cy |-> IF quit \/ cap THEN e.cy ELSE PlayerTick(e.cy, flap),
              pipes |-> IF quit \/ cap THEN e.pipes ELSE PipesTick(e.pipes, gap)]

\* A variant of PlayTick that triggers the flap whatever the network's
\* output is.
PlayTickAlwaysFlap(e, flap, quit, gap) ==
    LET ev == [collided |-> Collided(e), crossed |-> NumCrossed(e),
               quit |-> quit]
        sc == TickScore(e.fit, ev)
    IN  IF ev.collided
        THEN [e EXCEPT !.st = "returned", !.end = "collided",
                       !.fit = sc.fitness]
        ELSE [st |-> IF quit THEN "returned" ELSE "playing",
              end |-> IF quit THEN "quit" ELSE "none",
              gid |-> e.gid,
              fit |-> sc.fitness,
              alive |-> e.alive + 1,
              passes |-> e.passes + ev.crossed,
              flapped |-> e.flapped \/ flap,
              cy |-> IF quit THEN e.cy ELSE PlayerTick(e.cy, TRUE),
              pipes |-> IF quit THEN e.pipes ELSE PipesTick(e.pipes, gap)]

\* Lines 144-173, one iteration of the loop of play on episode e, given
\* whether the network's first output is above 0.5, whether a quit event
\* is pending and the gap of the obstacle that may spawn: a collision
\* costs the penalty and returns (line 147); otherwise the tick is
\* rewarded, crossed pipes are scored, the flap is triggered, a quit
\* event returns (line 166), and else the entities tick.  The fields
\* alive and flapped are history.
PlayTick(e, flap, quit, gap) ==
    LET ev == [collided |-> Collided(e), crossed |-> NumCrossed(e),
               quit |-> quit]
        sc == TickScore(e.fit, ev)
    IN  IF ev.collided
        THEN [e EXCEPT !.st = "returned", !.end = "collided",
                       !.fit = sc.fitness]
        ELSE [st |-> IF quit THEN "returned" ELSE "playing",
              end |-> IF quit THEN "quit" ELSE "none",
              gid |-> e.gid,
              fit |-> sc.fitness,
              alive |-> e.alive + 1,
              passes |-> e.passes + ev.crossed,
              flapped |-> e.flapped \/ flap,
              cy |-> IF quit THEN e.cy ELSE PlayerTick(e.cy, flap),
              pipes |-> IF quit THEN e.pipes ELSE PipesTick(e.pipes, gap)]

\* Lines 124-178: the worker's episode runs one iteration of the loop, the
\* observation being taken and the network activated first.  The survived
\* ticks are counted up to EpMaxTicks.
EpTick(w) ==
    /\ workers[w].st = "busy"
    /\ ep[w].st = "playing"
    /\ LET e == ep[w]
           o == Observation(e)
       IN  \E flap \in Decide(o), quit \in BOOLEAN, gap \in Gaps :
             /\ Collided(e) \/ e.alive < EpMaxTicks
             /\ ep' = [ep EXCEPT ![w] = PlayTick(e, flap, quit, gap)]
    /\ UNCHANGED <<coordVars, poolVars, fitness, nInt>>
    /\ UNCHANGED <<slotVars, batchVars, histVars>>

\* Lines 243-249, 271 and 284: the pair (gid, fitness) play returned goes
\* back to the coordinator as the task's result.  What the episode was is
\* kept as history.
EpDeliver(w) ==
    /\ workers[w].st = "busy"
    /\ ep[w].st = "returned"
    /\ LET e == ep[w] IN
         /\ outq' = Append(outq, [gid |-> e.gid, ok |-> TRUE,
                                  fitness |-> e.fit])
         /\ produced' = [produced EXCEPT ![e.gid] = @ + 1]
         /\ epFit' = [epFit EXCEPT ![e.gid] = Fit(e.fit)]
         /\ ep' = [ep EXCEPT ![w] =
                      [e EXCEPT !.st = "delivered", !.cy = 0,
                                !.pipes = <<>>]]
    /\ workers' = [workers EXCEPT ![w] = [st |-> "idle", gid |-> 0]]
    /\ UNCHANGED <<poolState, taskq, writes, failed>>
    /\ UNCHANGED <<coordVars, fitness, nInt, slotVars, batchVars>>

\* A worker that terminate() signalled dies, and its episode with it.
EpKilled(w) ==
    /\ workers[w].st = "killed"
    /\ workers' = [workers EXCEPT ![w] = [st |-> "dead", gid |-> 0]]
    /\ ep' = [ep EXCEPT ![w] = EpOff]
    /\ UNCHANGED <<poolState, taskq, outq>>
    /\ UNCHANGED <<coordVars, fitness, nInt, slotVars, batchVars, histVars>>

\* ------------------------------------------------------- generations
\* Line 362, population.run: after run_multiple_gnomes has returned with a
\* fitness on every genome, the next generation's batch, of the same size,
\* is evaluated.  A genome kept from the last generation carries its
\* fitness; a new one has none.
NextGeneration ==
    /\ pc = "returned"
    /\ gen < MaxGen
    /\ \A g \in Batch : fitness[g].set
    /\ gen' = gen + 1
    /\ \E kept \in SUBSET Batch :
         fitness' = [g \in Gids |-> IF g \in kept THEN fitness[g] ELSE Unset]
    /\ pre' = fitness'
    /\ pc' = "l307"
    /\ exc' = "none"
    /\ args' = <<>>
    /\ received' = 0
    /\ cur' = NoResult
    /\ poolState' = "none"
    /\ workers' = [w \in 1..batch_size |-> [st |-> "none", gid |-> 0]]
    /\ taskq' = <<>>
    /\ outq' = <<>>
    /\ produced' = [g \in Gids |-> 0]
    /\ writes' = [g \in Gids |-> 0]
    /\ epFit' = [g \in Gids |-> Unset]
    /\ failed' = {}
    /\ nInt' = 0
    /\ ep' = [w \in 1..batch_size |-> EpOff]
    /\ UNCHANGED <<sigint, batch_size, gnomes, slotVars>>

\* --------------------------------------------------------------- Spec
CoordStep ==
    \/ BuildDict
    \/ IgnoreSigint
    \/ CreatePool
    \/ RestoreSigint
    \/ BuildArg
    \/ Submit
    \/ NextResult
    \/ StopIteration
    \/ Assign
    \/ Terminate
    \/ TerminateWorkers
    \/ TerminateDone
    \/ Close
    \/ Join

WorkerStep ==
    \E w \in DOMAIN workers :
        \/ WorkerTake(w)
        \/ EpisodeReturn(w)
        \/ EpisodeRaise(w)
        \/ WorkerExit(w)
        \/ WorkerKilled(w)

Next ==
    \/ CoordStep
    \/ WorkerStep
    \/ Interrupt
    \/ NextGeneration

Spec == Init /\ [][Next]_vars

\* The coordinator's thread keeps running, a signalled or closed-out
\* worker process does exit, and the episode a worker is running comes to
\* its end.
LiveSpec ==
    /\ Spec
    /\ WF_vars(CoordStep)
    /\ \A w \in 1..MaxBatch : WF_vars(w \in DOMAIN workers /\ EpisodeReturn(w))
    /\ \A w \in 1..MaxBatch : WF_vars(w \in DOMAIN workers /\ WorkerKilled(w))
    /\ \A w \in 1..MaxBatch : WF_vars(w \in DOMAIN workers /\ WorkerExit(w))

\* One candidate, one worker, and the worker's episode played tick by
\* tick instead of in one step.
EpInit ==
    /\ Init
    /\ Len(gnomes) = 1
    /\ batch_size = 1

EpWorkerStep ==
    \E w \in DOMAIN workers :
        \/ WorkerTake(w)
        \/ EpStart(w)
        \/ EpTick(w)
        \/ EpDeliver(w)
        \/ WorkerExit(w)
        \/ EpKilled(w)

EpNext ==
    \/ CoordStep
    \/ EpWorkerStep
    \/ Interrupt
    \/ NextGeneration

EpisodeSpec == EpInit /\ [][EpNext]_vars

\* ------------------------------------------------------------- claims
Finished == pc \in {"returned", "raised"}
Scored(g) == writes[g] = 1 /\ epFit[g].set /\ fitness[g] = epFit[g]

\* C1: with no interrupt and no failing worker, when run_multiple_gnomes
\* returns from a batch of M <= batch_size candidates it has written exactly
\* M fitness values, one onto each candidate: the one its episode returned.
AllScoredOnReturn ==
    (pc = "returned" /\ nInt = 0 /\ failed = {} /\ Len(gnomes) <= batch_size)
        => /\ \A g \in Batch : Scored(g)
           /\ \A g \in Gids \ Batch : writes[g] = 0

AllScoredOnReturnWitness ==
    /\ pc = "returned" /\ nInt = 0 /\ failed = {}
    /\ Len(gnomes) = 2 /\ batch_size = 2
    /\ Scored(1) /\ Scored(2) /\ fitness[1] # fitness[2]

\* C2: when one worker's episode raised (and no interrupt came), the call
\* ends by returning, with every other candidate scored by its own episode
\* and the failing candidate's fitness as it was on entry.
WorkerFailureIsolated ==
    (Finished /\ nInt = 0 /\ Cardinality(failed) = 1)
        => /\ pc = "returned"
           /\ \A g \in Batch \ failed : Scored(g)
           /\ \A g \in failed : fitness[g] = pre[g]

\* C3: a KeyboardInterrupt delivered once the pool exists never reaches the
\* caller as an exception.
InterruptNeverPropagates ==
    (poolState # "none" /\ nInt > 0)
        => ~(pc = "raised" /\ exc = "KeyboardInterrupt")

\* C4: once terminate() has cancelled the pool, no worker starts a task; if
\* no further interrupt comes the call returns; and when it has returned
\* every worker has exited.
CancelStopsPool ==
    /\ [][poolState = "TERMINATE"
            => \A w \in DOMAIN workers :
                 (workers'[w].st = "busy" => workers[w] = workers'[w])]_vars
    /\ []((poolState = "TERMINATE" /\ pc = "returned") => AllDead)
    /\ (poolState = "TERMINATE" /\ nInt = 1) ~> (pc = "returned" \/ nInt > 1)

CancelStopsPoolWitness ==
    /\ pc = "returned" /\ poolState = "TERMINATE" /\ nInt = 1 /\ AllDead
    /\ Len(gnomes) = 2
    /\ produced[1] = 1 /\ produced[2] = 0

\* C5: from the interrupt on, no candidate's fitness changes: one whose
\* result was not written has its fitness of entry, one whose result was
\* written has that value.
CancellationKeepsFitness ==
    /\ [][nInt' > 0 => fitness' = fitness]_vars
    /\ [](nInt > 0 => \A g \in Batch :
            fitness[g] = (IF writes[g] = 0 THEN pre[g] ELSE epFit[g]))

CancellationKeepsFitnessWitness ==
    /\ pc = "returned" /\ poolState = "TERMINATE" /\ nInt = 1
    /\ \E g, h \in Batch :
         /\ writes[g] = 1 /\ fitness[g] = epFit[g]
         /\ writes[h] = 0 /\ pre[h].set /\ fitness[h] = pre[h]

\* C6: in every execution each candidate has at most one result produced
\* for it and its fitness is assigned at most once in an invocation.
AtMostOneResultAndWrite ==
    \A g \in Gids : produced[g] <= 1 /\ writes[g] <= 1

AtMostOneResultAndWriteWitness ==
    /\ Finished
    /\ \E g, h \in Batch :
         /\ produced[g] = 1 /\ writes[g] = 1
         /\ produced[h] = 1 /\ h \in failed

\* C7: the k-th call (k = 0, 1, ...) of get_new_window_cords returned
\* (10 + 300*(k mod 6), 10 + 550*(k div 6)), and the globals hold the pair
\* returned last (the sentinel before the first call).
KthSlot(k) == <<10 + 300 * (k % 6), 10 + 550 * (k \div 6)>>

SlotSequenceExact ==
    /\ \A k \in 1..Len(slotLog) : slotLog[k] = KthSlot(k - 1)
    /\ <<WINDOW_X, WINDOW_Y>> =
         (IF slotLog = <<>> THEN <<-1, -1>> ELSE slotLog[Len(slotLog)])

SlotSequenceExactWitness ==
    /\ Len(slotLog) = 8
    /\ slotLog[6] = <<1510, 10>> /\ slotLog[7] = <<10, 560>>
    /\ WINDOW_X = 310 /\ WINDOW_Y = 560

\* C8, as stated: the 6th call of the allocator returns (10, 560).
SixthCallWraps ==
    Len(slotLog) >= 6 => slotLog[6] = <<10, 560>>

\* C8, amended: the 6th call returns (1510, 10), the last slot of the first
\* row, and it is the 7th call that wraps and returns (10, 560).
SeventhCallWraps ==
    /\ Len(slotLog) >= 6 => slotLog[6] = <<1510, 10>>
    /\ Len(slotLog) >= 7 => slotLog[7] = <<10, 560>>

SeventhCallWrapsWitness ==
    Len(slotLog) = 7 /\ WINDOW_X = 10 /\ WINDOW_Y = 560

\* C9: no two slot allocations of the process, in one batch or across
\* batches, returned the same (x, y) pair.
SlotsDistinct ==
    \A i, j \in 1..Len(slotLog) : i # j => slotLog[i] # slotLog[j]

SlotsDistinctWitness ==
    /\ Len(slotLog) >= 7
    /\ Len(args) = 2
    /\ <<args[1].x, args[1].y>> # <<args[2].x, args[2].y>>
    /\ args[2].y = 560

SecondInterruptNoDeadlock ==
    (poolState = "TERMINATE" /\ nInt >= 2) ~> (Finished /\ AllDead)

\* C15: a fitness is on a candidate only after that candidate's own episode
\* produced a result, and it is the fitness that episode returned, whatever
\* the order in which the results came in.
ResultsMatchedById ==
    \A g \in Gids :
        writes[g] >= 1
            => (produced[g] >= 1 /\ epFit[g].set /\ fitness[g] = epFit[g])

\* Candidate 2 finished first and is scored; candidate 1 has no result yet.
ResultsMatchedByIdWitness ==
    /\ Len(gnomes) = 2 /\ nInt = 0
    /\ Scored(2) /\ fitness[2] # pre[2]
    /\ produced[1] = 0 /\ writes[1] = 0 /\ fitness[1] = pre[1]

\* C16: never more than batch_size episodes run, no two workers run the
\* same task, a worker running an episode keeps to it until it ends, and a
\* batch larger than the pool is still scored completely.
InFlight == {w \in DOMAIN workers : workers[w].gid # 0}

BoundedConcurrency ==
    /\ [](Cardinality(InFlight) <= batch_size)
    /\ [](\A v, w \in InFlight : workers[v].gid = workers[w].gid => v = w)
    /\ [][\A w \in InFlight :
            (w \in DOMAIN workers' /\ workers'[w].gid # 0)
                => workers'[w].gid = workers[w].gid]_vars
    /\ []((pc = "returned" /\ nInt = 0 /\ failed = {})
            => \A g \in Batch : Scored(g))

BoundedConcurrencyWitness ==
    /\ pc = "returned" /\ nInt = 0 /\ failed = {}
    /\ Len(gnomes) = 2 /\ batch_size = 1
    /\ Scored(1) /\ Scored(2)

\* C19: with no interrupt, join is only called on a pool that was closed or
\* terminated, and when the call has ended no worker is left.
JoinOnlyAfterCloseOrTerminate ==
    nInt = 0
        => /\ pc = "l335" => poolState \in {"CLOSE", "TERMINATE"}
           /\ (Finished /\ poolState # "none") => AllDead

\* ---------------------------------------------------- episode claims
Playing(w) == workers[w].st = "busy" /\ ep[w].st = "playing"
Ended(w) == ep[w].st \in {"returned", "delivered"}

\* What the rewards of an episode add up to, from its history alone.
EpisodeScore(e) ==
    SurvivalReward * e.alive + PassReward * e.passes
        - (IF e.end = "collided" THEN CollisionPenalty ELSE 0)

\* C11: an episode ended by a collision returns 0.1 per survived tick,
\* plus 5 per obstacle passed, minus 1; a surviving tick adds 0.1 and 5 per
\* obstacle crossed on it; the colliding tick subtracts 1 and changes
\* nothing else.
CollisionFitnessExact ==
    /\ [](\A w \in DOMAIN ep :
            ep[w].end = "collided"
                => ep[w].fit = SurvivalReward * ep[w].alive - CollisionPenalty
                                 + PassReward * ep[w].passes)
    /\ [][\A w \in DOMAIN ep :
            (Playing(w) /\ ep'[w].alive = ep[w].alive + 1)
                => ep'[w].fit = ep[w].fit + SurvivalReward
                      + PassReward * (ep'[w].passes - ep[w].passes)]_vars
    /\ [][\A w \in DOMAIN ep :
            (Playing(w) /\ ep'[w].end = "collided")
                => ep'[w] = [ep[w] EXCEPT !.st = "returned",
                                          !.end = "collided",
                                          !.fit = @ - CollisionPenalty]]_vars

\* Six ticks survived, two obstacles passed, then the collision.
CollisionFitnessExactWitness ==
    \E w \in DOMAIN ep :
        /\ ep[w].st = "returned" /\ ep[w].end = "collided"
        /\ ep[w].alive = 6 /\ ep[w].passes = 2
        /\ ep[w].fit = 96

\* C12: a quit event ends the episode on its tick, after that tick's
\* rewards and with no penalty; the fitness returned is assigned to the
\* candidate as any result is.
QuitReturnsCumulativeFitness ==
    /\ [](\A w \in DOMAIN ep :
            ep[w].end = "quit"
                => /\ ep[w].alive >= 1
                   /\ ep[w].fit = SurvivalReward * ep[w].alive
                                    + PassReward * ep[w].passes)
    /\ [][\A w \in DOMAIN ep :
            (Playing(w) /\ ep'[w].end = "quit")
                => /\ ep'[w].st = "returned"
                   /\ ep'[w].fit = ep[w].fit + SurvivalReward
                                     + PassReward * NumCrossed(ep[w])
                   /\ ep'[w].cy = ep[w].cy
                   /\ ep'[w].pipes = ep[w].pipes]_vars
    /\ [](\A w \in DOMAIN ep :
            (ep[w].st = "delivered" /\ ep[w].end = "quit")
                => /\ epFit[ep[w].gid] = Fit(ep[w].fit)
                   /\ writes[ep[w].gid] >= 1
                        => fitness[ep[w].gid] = Fit(ep[w].fit)
                   /\ (pc = "returned" /\ nInt = 0) => Scored(ep[w].gid))

\* A user quit after one obstacle; the coordinator returned with the
\* fitness on the candidate.
QuitReturnsCumulativeFitnessWitness ==
    \E w \in DOMAIN ep :
        /\ ep[w].st = "delivered" /\ ep[w].end = "quit"
        /\ ep[w].passes = 1
        /\ pc = "returned" /\ nInt = 0
        /\ writes[ep[w].gid] = 1
        /\ fitness[ep[w].gid] = Fit(ep[w].fit)

ReturnsOnlyOnCollisionOrQuit ==
    /\ [][\A w \in DOMAIN ep :
            (Playing(w) /\ ep'[w].st = "returned")
                => \/ ep'[w].end = "collided" /\ Collided(ep[w])
                   \/ ep'[w].end = "quit"]_vars
    /\ [](\A w \in DOMAIN ep : Ended(w) => ep[w].end \in {"collided", "quit"})
    /\ [](\A w \in DOMAIN ep :
            (Playing(w) /\ nInt = 0)
                => /\ pc = "next"
                   /\ ~ENABLED CoordStep
                   /\ writes[ep[w].gid] = 0
                   /\ fitness[ep[w].gid] = pre[ep[w].gid])

\* The episode has survived every tick counted and is still being played,
\* with the coordinator waiting.
ReturnsOnlyOnCollisionOrQuitWitness ==
    \E w \in DOMAIN ep :
        /\ Playing(w) /\ ~Collided(ep[w])
        /\ ep[w].alive = EpMaxTicks
        /\ pc = "next" /\ nInt = 0
        /\ writes[ep[w].gid] = 0

\* C18: the obstacle the observation is taken from has not been passed:
\* its distance from the agent is not negative.
ObservesUpcomingObstacle ==
    \A w \in DOMAIN ep : Playing(w) => Observation(ep[w])[2] >= 0

\* C20: play starts from fitness 0 whatever fitness the genome carried,
\* and what an episode returns is the sum of its own rewards, also for a
\* candidate that came with the fitness of an earlier generation.
ResultIndependentOfOldFitness ==
    /\ [][\A w \in DOMAIN ep :
            (ep[w].st # "playing" /\ ep'[w].st = "playing")
                => ep'[w].fit = 0]_vars
    /\ [](\A w \in DOMAIN ep :
            (Ended(w) /\ pre[ep[w].gid].set)
                => ep[w].fit = EpisodeScore(ep[w]))
    /\ [](\A w \in DOMAIN ep :
            (ep[w].st = "delivered" /\ pre[ep[w].gid].set)
                => epFit[ep[w].gid] = Fit(EpisodeScore(ep[w])))

\* A candidate kept from the generation before, with a fitness other than
\* 0, was evaluated again and got a different fitness.
ResultIndependentOfOldFitnessWitness ==
    \E w \in DOMAIN ep :
        /\ gen >= 2
        /\ ep[w].st = "delivered"
        /\ pre[ep[w].gid].set /\ pre[ep[w].gid].v # 0
        /\ writes[ep[w].gid] = 1
        /\ fitness[ep[w].gid] = Fit(EpisodeScore(ep[w]))
        /\ fitness[ep[w].gid] # pre[ep[w].gid]

=============================================================================
